---- MODULE Spec2Model ----
(***************************************************************************)
(* State-machine model of face_report.py: the ingestion loop of main()     *)
(* (videos -> sampled frames -> detected faces), the identity gallery      *)
(* (known_face_encodings / known_face_metadata), the per-file set          *)
(* persons_found_in_this_file, create_thumbnail and generate_html_report.  *)
(*                                                                         *)
(* A face encoding is a point on a line, in tenths, and face_distance is   *)
(* the Euclidean distance on it; FACE_COMPARISON_TOLERANCE is 0.6 in the   *)
(* same unit.  A cropped face image is a number, 0 being the empty crop.   *)
(* Indices are Python's: 0-based, -1 for "no match"; sequence k of the     *)
(* model is list element k-1 of the program.                               *)
(***************************************************************************)
EXTENDS Integers, Sequences, FiniteSets

\* ---- bounds of the model
MaxVideos == 2      \* .mp4 files under the input directory
MaxFrames == 2      \* decoded frames per video
MaxFaces == 2       \* faces detected in one sampled frame
MaxEmb == 7         \* face encodings are 0..MaxEmb
MaxImage == 2       \* cropped face images are 0..MaxImage
MaxSkip == 2        \* --skip-frames is 1..MaxSkip
RunVideos == 2      \* .mp4 files of a recorded directory (SpecRuns)

\* ---- program constants
FACE_COMPARISON_TOLERANCE == 6

None == <<>>

VARIABLES
    pc,                          \* position in main()
    exit_code,                   \* -1 while running, else the process's exit status
    outcome,                     \* how the process ended
    skip_frames,                 \* args.skip_frames
    video_files,                 \* sorted list of paths
    video_idx,                   \* videos taken from video_files so far
    frame_count,
    num_faces,                   \* len(face_locations) of the sampled frame
    i,                           \* faces of the sampled frame processed so far
    match_index,
    known_face_encodings,
    known_face_metadata,
    persons_found_in_this_file,
    report,                      \* the file at args.output_html
    \* history of the run, read by the properties only
    opened_videos,               \* videos opened so far
    count_at_open,               \* the counts when the current video was opened
    videos_seen,                 \* per known encoding: videos with a detection of it
    seen_this_file,              \* indices of the encodings detected in this video
    ref_of,                      \* per metadata record: index of its encoding
    \* the recorded directory of SpecRuns and SpecMatcher (empty in Spec, where
    \* every input is drawn when the program reads it)
    videos,                      \* path -> [opens, frames], a frame being its faces
    run,                         \* 1, or 2 once the program was started again
    first_run                    \* the gallery the first run ended with

vars == <<pc, exit_code, outcome, skip_frames, video_files, video_idx, frame_count,
          num_faces, i, match_index, known_face_encodings,
          known_face_metadata, persons_found_in_this_file, report,
          opened_videos, count_at_open, videos_seen, seen_this_file, ref_of,
          videos, run, first_run>>

Encodings == 0..MaxEmb
Images == 0..MaxImage
\* One detected face: its encoding, the crop create_thumbnail cuts for it, and
\* whether cv2.imencode succeeds on the resized crop.
Detections == [encoding : Encodings, face_image : Images, is_success : BOOLEAN]

Range(s) == {s[k] : k \in DOMAIN s}

Orderings(S) == {s \in [1..Cardinality(S) -> S] : Range(s) = S}

\* ---- pure functions

RECURSIVE InsertSorted(_, _)
InsertSorted(s, x) ==
    IF s = <<>> THEN <<x>>
    ELSE IF x <= Head(s) THEN <<x>> \o s
    ELSE <<Head(s)>> \o InsertSorted(Tail(s), x)

RECURSIVE SortAscending(_)
SortAscending(s) ==
    IF s = <<>> THEN <<>> ELSE InsertSorted(SortAscending(Tail(s)), Head(s))

\* variant: the listing is used in the order rglob yields it
sorted_unsorted(paths) == paths
\* sorted(list(input_path.rglob("*.mp4")))
sorted(paths) == SortAscending(paths)

face_distance(a, b) == IF a >= b THEN a - b ELSE b - a

\* variant: the tolerance itself is out of tolerance
compare_faces_strict(known, face, tolerance) ==
    [k \in 1..Len(known) |-> face_distance(known[k], face) < tolerance]
\* face_recognition.compare_faces: list(face_distance(known, face) <= tolerance)
compare_faces(known, face, tolerance) ==
    [k \in 1..Len(known) |-> face_distance(known[k], face) <= tolerance]

\* matches.index(True), 0-based; called only when True in matches
RECURSIVE IndexFrom(_, _)
IndexFrom(matches, k) ==
    IF matches[k] THEN k - 1 ELSE IndexFrom(matches, k + 1)

RECURSIVE LastIndexFrom(_, _)
LastIndexFrom(matches, k) ==
    IF matches[k] THEN k - 1 ELSE LastIndexFrom(matches, k - 1)

\* variant: the last True of matches
MatchIndex_last(matches) ==
    IF TRUE \in Range(matches) THEN LastIndexFrom(matches, Len(matches)) ELSE -1
\* match_index = -1; if True in matches: match_index = matches.index(True)
MatchIndex(matches) ==
    IF TRUE \in Range(matches) THEN IndexFrom(matches, 1) ELSE -1

\* base64.b64encode(buffer).decode("utf-8") of the encoded crop
b64encode(face_image) == <<face_image>>

create_thumbnail(face_image, is_success) ==
    IF face_image = 0 THEN None
    ELSE IF ~is_success THEN None
    ELSE b64encode(face_image)

\* variant: every match is counted
NotYetCounted_always(index, found) == TRUE
\* match_index not in persons_found_in_this_file
NotYetCounted(index, found) == index \notin found

\* variant: the record is built anew, without its thumbnail
IncrementCount_rebuild(metadata, index) ==
    [metadata EXCEPT ![index + 1] = [count |-> @.count + 1, thumbnail |-> None]]
\* variant: the count is raised by 2
IncrementCount_twice(metadata, index) ==
    [metadata EXCEPT ![index + 1].count = @ + 2]
\* known_face_metadata[match_index]['count'] += 1
IncrementCount(metadata, index) ==
    [metadata EXCEPT ![index + 1].count = @ + 1]

\* known_face_metadata.append({"count": 1, "thumbnail": thumbnail})
NewMetadata(thumbnail) == [count |-> 1, thumbnail |-> thumbnail]

\* sorted(face_metadata, key=lambda x: x['count'], reverse=True): stable
RECURSIVE InsertByCount(_, _)
InsertByCount(s, x) ==
    IF s = <<>> THEN <<x>>
    ELSE IF x.count >= Head(s).count THEN <<x>> \o s
    ELSE <<Head(s)>> \o InsertByCount(Tail(s), x)

\* variant: the least count first (reverse=True left out)
RECURSIVE InsertByCountAscending(_, _)
InsertByCountAscending(s, x) ==
    IF s = <<>> THEN <<x>>
    ELSE IF x.count < Head(s).count THEN <<x>> \o s
    ELSE <<Head(s)>> \o InsertByCountAscending(Tail(s), x)

RECURSIVE SortByCountAscending(_)
SortByCountAscending(s) ==
    IF s = <<>> THEN <<>>
    ELSE InsertByCountAscending(SortByCountAscending(Tail(s)), Head(s))

RECURSIVE SortByCountDescending(_)
SortByCountDescending(s) ==
    IF s = <<>> THEN <<>>
    ELSE InsertByCount(SortByCountDescending(Tail(s)), Head(s))

\* for i, data in enumerate(sorted_metadata): one card, "Личность #{i + 1}",
\* with the record's count and thumbnail
PersonCards(sorted_metadata) ==
    [k \in 1..Len(sorted_metadata) |->
        [person_id |-> k,
         count |-> sorted_metadata[k].count,
         thumbnail |-> sorted_metadata[k].thumbnail]]

NoReport == [written |-> FALSE, total_count |-> 0, cards |-> <<>>]

\* ---- the run

NoRun == [ended |-> FALSE, encodings |-> <<>>, metadata |-> <<>>]

\* the state when main() is entered
Start ==
    /\ pc = "start"
    /\ exit_code = -1
    /\ outcome = "running"
    /\ video_files = <<>>
    /\ video_idx = 0
    /\ frame_count = 0
    /\ num_faces = 0
    /\ i = 0
    /\ match_index = -1
    /\ known_face_encodings = <<>>
    /\ known_face_metadata = <<>>
    /\ persons_found_in_this_file = {}
    /\ report = NoReport
    /\ opened_videos = 0
    /\ count_at_open = <<>>
    /\ videos_seen = <<>>
    /\ seen_this_file = {}
    /\ ref_of = <<>>

Init ==
    /\ Start
    /\ skip_frames \in 1..MaxSkip
    /\ videos = <<>>
    /\ run = 1
    /\ first_run = NoRun

galleryVars == <<known_face_encodings, known_face_metadata,
                 persons_found_in_this_file, videos_seen, seen_this_file,
                 ref_of>>
faceVars == <<num_faces, i, match_index>>
runVars == <<videos, run, first_run>>

\* main(), up to the loop over the videos
FindVideos(is_dir, rglob) ==
    /\ pc = "start"
    /\ IF ~is_dir
       THEN /\ pc' = "exit"
            /\ exit_code' = 1
            /\ outcome' = "not_a_directory"
            /\ UNCHANGED video_files
       ELSE /\ video_files' = sorted(rglob)
            /\ IF video_files' = <<>>
               THEN pc' = "exit" /\ exit_code' = 0 /\ outcome' = "no_videos"
               ELSE pc' = "for_video" /\ UNCHANGED <<exit_code, outcome>>
    /\ UNCHANGED <<skip_frames, video_idx, frame_count, faceVars, galleryVars,
                   report, opened_videos, count_at_open, runVars>>

\* variant: a video that cannot be opened ends the loop (break for continue)
OpenVideo_break(opened) ==
    /\ pc = "for_video"
    /\ video_idx < Len(video_files)
    /\ IF ~opened
       THEN /\ video_idx' = Len(video_files)
            /\ UNCHANGED <<pc, persons_found_in_this_file, frame_count,
                           opened_videos, count_at_open, seen_this_file>>
       ELSE /\ video_idx' = video_idx + 1
            /\ pc' = "while_frame"
            /\ persons_found_in_this_file' = {}
            /\ frame_count' = 0
            /\ opened_videos' = opened_videos + 1
            /\ seen_this_file' = {}
            /\ count_at_open' =
                 [k \in 1..Len(known_face_metadata) |-> known_face_metadata[k].count]
    /\ UNCHANGED <<exit_code, outcome, skip_frames, video_files, faceVars,
                   known_face_encodings, known_face_metadata, videos_seen, ref_of,
                   report, runVars>>

\* for video_path in video_files: cap = cv2.VideoCapture(...); if it is not
\* opened, continue; else persons_found_in_this_file = set(), frame_count = 0
OpenVideo(opened) ==
    /\ pc = "for_video"
    /\ video_idx < Len(video_files)
    /\ video_idx' = video_idx + 1
    /\ IF ~opened
       THEN UNCHANGED <<pc, persons_found_in_this_file, frame_count,
                        opened_videos, count_at_open, seen_this_file>>
       ELSE /\ pc' = "while_frame"
            /\ persons_found_in_this_file' = {}
            /\ frame_count' = 0
            /\ opened_videos' = opened_videos + 1
            /\ seen_this_file' = {}
            /\ count_at_open' =
                 [k \in 1..Len(known_face_metadata) |-> known_face_metadata[k].count]
    /\ UNCHANGED <<exit_code, outcome, skip_frames, video_files, faceVars,
                   known_face_encodings, known_face_metadata, videos_seen, ref_of,
                   report, runVars>>

\* while cap.isOpened(): ret, frame = cap.read() ... face_locations(...)
\* frame_count, face_locations and i are not read again once their loop is
\* left (the next video, the next sampled frame assign them anew): the model
\* clears them there.
ReadFrame(ret, n) ==
    /\ pc = "while_frame"
    /\ IF ~ret
       THEN /\ pc' = "for_video"
            /\ frame_count' = 0
            /\ UNCHANGED <<num_faces, i>>
       ELSE /\ frame_count' = frame_count + 1
            /\ IF frame_count' % skip_frames # 0
               THEN UNCHANGED <<pc, num_faces, i>>
               ELSE /\ num_faces' = n
                    /\ i' = 0
                    /\ pc' = IF n = 0 THEN "while_frame" ELSE "for_face"
    /\ UNCHANGED <<exit_code, outcome, skip_frames, video_files, video_idx,
                   match_index, galleryVars, report,
                   opened_videos, count_at_open, runVars>>

\* variant: the encoding the previous detection of the frame appended is not
\* compared yet
Match_stale(face_encoding) ==
    MatchIndex(compare_faces(
        IF i >= 1 /\ match_index = -1
        THEN SubSeq(known_face_encodings, 1, Len(known_face_encodings) - 1)
        ELSE known_face_encodings,
        face_encoding, FACE_COMPARISON_TOLERANCE))

\* compare_faces(...), then match_index = -1 / matches.index(True)
Match(face_encoding) ==
    MatchIndex(compare_faces(known_face_encodings, face_encoding,
                             FACE_COMPARISON_TOLERANCE))

\* the face loop goes on to the next face, or is left after the last one
NextFace ==
    /\ IF i + 1 = num_faces
       THEN pc' = "while_frame" /\ i' = 0 /\ num_faces' = 0
       ELSE pc' = "for_face" /\ i' = i + 1 /\ UNCHANGED num_faces
    /\ UNCHANGED <<exit_code, outcome>>

\* one iteration of the face loop, the face being matched: if match_index != -1
KnownFace(face_encoding) ==
    /\ pc = "for_face"
    /\ i < num_faces
    /\ LET index == Match(face_encoding)
       IN /\ index # -1
          /\ match_index' = index
          /\ seen_this_file' = seen_this_file \cup {index}
          /\ videos_seen' = IF index \in seen_this_file THEN videos_seen
                            ELSE [videos_seen EXCEPT ![index + 1] = @ + 1]
          /\ IF ~NotYetCounted(index, persons_found_in_this_file)
             THEN /\ UNCHANGED <<known_face_metadata, persons_found_in_this_file>>
                  /\ NextFace
             ELSE IF index >= Len(known_face_metadata)
             THEN \* IndexError: list index out of range
                  /\ pc' = "exit"
                  /\ exit_code' = 1
                  /\ outcome' = "IndexError"
                  /\ UNCHANGED <<known_face_metadata, persons_found_in_this_file,
                                 i, num_faces>>
             ELSE /\ known_face_metadata' = IncrementCount(known_face_metadata, index)
                  /\ persons_found_in_this_file' =
                       persons_found_in_this_file \cup {index}
                  /\ NextFace
    /\ UNCHANGED <<skip_frames, video_files, video_idx, frame_count,
                   known_face_encodings, ref_of,
                   report, opened_videos, count_at_open, runVars>>

\* one iteration of the face loop, the face being unmatched: the else branch,
\* the only one that cuts a thumbnail
NewFace(face_encoding, face_image, is_success) ==
    /\ pc = "for_face"
    /\ i < num_faces
    /\ LET index == Match(face_encoding)
           thumbnail == create_thumbnail(face_image, is_success)
       IN /\ index = -1
          /\ match_index' = index
          /\ known_face_encodings' = Append(known_face_encodings, face_encoding)
          /\ videos_seen' = Append(videos_seen, 1)
          /\ seen_this_file' = seen_this_file \cup {Len(known_face_encodings)}
          /\ IF thumbnail # None
             THEN /\ known_face_metadata' =
                       Append(known_face_metadata, NewMetadata(thumbnail))
                  /\ persons_found_in_this_file' =
                       persons_found_in_this_file \cup {Len(known_face_metadata') - 1}
                  /\ ref_of' = Append(ref_of, Len(known_face_encodings') - 1)
             ELSE UNCHANGED <<known_face_metadata, persons_found_in_this_file,
                              ref_of>>
    /\ NextFace
    /\ UNCHANGED <<skip_frames, video_files, video_idx, frame_count,
                   report, opened_videos, count_at_open, runVars>>

\* one iteration of: for i, face_encoding in enumerate(current_face_encodings)
ProcessFace(det) ==
    \/ KnownFace(det.encoding)
    \/ NewFace(det.encoding, det.face_image, det.is_success)

\* generate_html_report(known_face_metadata, args.output_html), then main returns
GenerateReport ==
    /\ pc = "for_video"
    /\ video_idx = Len(video_files)
    /\ report' = IF known_face_metadata = <<>>
                 THEN report
                 ELSE LET sorted_metadata == SortByCountDescending(known_face_metadata)
                      IN [written |-> TRUE,
                          total_count |-> Len(sorted_metadata),
                          cards |-> PersonCards(sorted_metadata)]
    /\ pc' = "exit"
    /\ exit_code' = 0
    /\ outcome' = "returned"
    /\ UNCHANGED <<skip_frames, video_files, video_idx, frame_count, faceVars,
                   galleryVars, opened_videos, count_at_open, runVars>>

Next ==
    \/ \E is_dir \in BOOLEAN, n \in 0..MaxVideos :
         \E rglob \in Orderings(1..n) : FindVideos(is_dir, rglob)
    \/ \E opened \in BOOLEAN : OpenVideo(opened)
    \/ \E ret \in BOOLEAN, n \in 0..MaxFaces :
         /\ ret => frame_count < MaxFrames
         /\ ReadFrame(ret, n)
    \/ \E face_encoding \in Encodings : KnownFace(face_encoding)
    \/ \E det \in Detections :
         NewFace(det.encoding, det.face_image, det.is_success)
    \/ GenerateReport

Spec == Init /\ [][Next]_vars

\* ---- a recorded directory: every run over it reads the same videos

Openable == {p \in DOMAIN videos : videos[p].opens}
CurrentVideo == videos[video_files[video_idx]]
\* face_locations[i] / current_face_encodings[i] of the sampled frame
CurrentFace == CurrentVideo.frames[frame_count][i + 1]

\* The first run lists every file; the directory of the second run may have
\* lost files that cannot be opened.  rglob yields them in any order.
ReplayFindVideos ==
    \E listed \in SUBSET (DOMAIN videos) :
       /\ IF run = 1 THEN listed = DOMAIN videos ELSE Openable \subseteq listed
       /\ \E rglob \in Orderings(listed) : FindVideos(TRUE, rglob)

ReplayOpenVideo ==
    /\ pc = "for_video"
    /\ video_idx < Len(video_files)
    /\ OpenVideo(videos[video_files[video_idx + 1]].opens)

ReplayReadFrame ==
    /\ pc = "while_frame"
    /\ LET frames == CurrentVideo.frames
           ret == frame_count < Len(frames)
       IN ReadFrame(ret, IF ret THEN Len(frames[frame_count + 1]) ELSE 0)

ReplayProcessFace ==
    /\ pc = "for_face"
    /\ i < num_faces
    /\ ProcessFace(CurrentFace)

\* the program is started again on the same recording, with the same arguments
StartSecondRun ==
    /\ pc = "exit"
    /\ run = 1
    /\ run' = 2
    /\ first_run' = [ended |-> TRUE,
                     encodings |-> known_face_encodings,
                     metadata |-> known_face_metadata]
    /\ pc' = "start"
    /\ exit_code' = -1
    /\ outcome' = "running"
    /\ video_files' = <<>>
    /\ video_idx' = 0
    /\ frame_count' = 0
    /\ num_faces' = 0
    /\ i' = 0
    /\ match_index' = -1
    /\ known_face_encodings' = <<>>
    /\ known_face_metadata' = <<>>
    /\ persons_found_in_this_file' = {}
    /\ report' = NoReport
    /\ opened_videos' = 0
    /\ count_at_open' = <<>>
    /\ videos_seen' = <<>>
    /\ seen_this_file' = {}
    /\ ref_of' = <<>>
    /\ UNCHANGED <<skip_frames, videos>>

NextReplay ==
    \/ ReplayFindVideos
    \/ ReplayOpenVideo
    \/ ReplayReadFrame
    \/ ReplayProcessFace
    \/ GenerateReport

NextRuns == NextReplay \/ StartSecondRun

GoodFace(e) == [encoding |-> e, face_image |-> 1, is_success |-> TRUE]

\* the faces of the recorded videos of SpecRuns: one face at most per video
RunFaces ==
    {[encoding |-> e, face_image |-> im, is_success |-> TRUE] :
        e \in {0, FACE_COMPARISON_TOLERANCE, MaxEmb}, im \in Images}

RunVideoContents ==
    {[opens |-> FALSE, frames |-> <<>>],
     [opens |-> TRUE, frames |-> <<>>],
     [opens |-> TRUE, frames |-> << <<>> >>]}
    \cup {[opens |-> TRUE, frames |-> << <<f>> >>] : f \in RunFaces}

InitRuns ==
    /\ Start
    /\ skip_frames = 1
    /\ videos \in [1..RunVideos -> RunVideoContents]
    /\ run = 1
    /\ first_run = NoRun

SpecRuns == InitRuns /\ [][NextRuns]_vars

\* ---- the Matcher on every gallery: the first video shows the faces of a
\* gallery (each one out of tolerance of the earlier ones, as every gallery the
\* loop builds is), the second video shows one more face.

Far(g, e) ==
    \A k \in 1..Len(g) : face_distance(g[k], e) > FACE_COMPARISON_TOLERANCE

RECURSIVE Extend(_)
Extend(G) ==
    LET more == {Append(g, e) : g \in G, e \in Encodings}
        far == {h \in more : Far(SubSeq(h, 1, Len(h) - 1), h[Len(h)])}
    IN IF far \subseteq G THEN G ELSE Extend(G \cup far)

Galleries == Extend({<<>>})

InitMatcher ==
    /\ Start
    /\ skip_frames = 1
    /\ \E g \in Galleries, probe \in Detections :
          videos = <<[opens |-> TRUE,
                      frames |-> <<[k \in 1..Len(g) |-> GoodFace(g[k])]>>],
                     [opens |-> TRUE, frames |-> << <<probe>> >>]>>
    /\ run = 1
    /\ first_run = NoRun

SpecMatcher == InitMatcher /\ [][NextReplay]_vars

\* ---- properties

MetadataIndices == 1..Len(known_face_metadata)
EncodingIndices == 1..Len(known_face_encodings)

\* C1 (Spec): at-most-once-per-video.  While a video is processed, the count of
\* an identity that existed when the video was opened is its count at that
\* moment or one more, and the count of an identity created in the video is 1,
\* whatever number of detections of the video matched it.
C1_AtMostOncePerVideo ==
    \A k \in MetadataIndices :
        IF k <= Len(count_at_open)
        THEN known_face_metadata[k].count - count_at_open[k] \in {0, 1}
        ELSE known_face_metadata[k].count = 1

\* The last detection matched an identity created earlier in the same video,
\* and its count is still 1.
C1_Witness ==
    /\ pc \in {"while_frame", "for_face"}
    /\ Len(known_face_encodings) = Len(known_face_metadata)
    /\ match_index # -1
    /\ match_index >= Len(count_at_open)
    /\ match_index < Len(known_face_metadata)
    /\ known_face_metadata[match_index + 1].count = 1

\* C3 (Spec): a detection whose thumbnail crop fails is discarded entirely:
\* processing it leaves the known encodings as they were, so that no later
\* detection is matched against it.
C3_FailedCropDiscarded ==
    [][\A det \in Detections :
          (ProcessFace(det)
             /\ create_thumbnail(det.face_image, det.is_success) = None)
          => known_face_encodings' = known_face_encodings]_vars

\* C4 (Spec): exact per-video counting.  When the run has ended normally, the
\* count of every identity is the number of opened videos in which a detection
\* created it or was first-matched to its reference encoding.
C4_ExactPerVideoCount ==
    (pc = "exit" /\ outcome = "returned")
    => \A k \in MetadataIndices :
          known_face_metadata[k].count = videos_seen[ref_of[k] + 1]

\* C5 (Spec): the index the Matcher returned refers to an existing identity
\* record, so that the increment is in range.
C5_IncrementInRange ==
    /\ match_index < Len(known_face_metadata)
    /\ outcome # "IndexError"

\* the known encodings (0-based indices) within tolerance of encoding e
WithinTolerance(e) ==
    {k \in 0..(Len(known_face_encodings) - 1) :
        face_distance(known_face_encodings[k + 1], e) <= FACE_COMPARISON_TOLERANCE}

\* the face of the second video of SpecMatcher has been processed
ProbeProcessed ==
    /\ video_idx = 2
    /\ frame_count = 1
    /\ pc = "while_frame"

ProbeEncoding == videos[2].frames[1][1].encoding

\* C2 (SpecMatcher): first-match-wins.  Processing a face sets match_index to
\* the lowest index among the known encodings within tolerance of it, and to
\* -1 exactly when there is none (or no known encoding at all).
C2_FirstMatchWins ==
    [][pc = "for_face"
       => LET within == WithinTolerance(CurrentFace.encoding)
          IN IF within = {}
             THEN match_index' = -1
             ELSE /\ match_index' \in within
                  /\ \A k \in within : match_index' <= k]_vars

\* Two known encodings are within tolerance of the new one, the second is the
\* nearer, and the first was returned.
C2_Witness ==
    /\ ProbeProcessed
    /\ Len(known_face_encodings) = 2
    /\ WithinTolerance(ProbeEncoding) = {0, 1}
    /\ face_distance(known_face_encodings[2], ProbeEncoding)
         < face_distance(known_face_encodings[1], ProbeEncoding)
    /\ match_index = 0

\* C6 as stated (SpecMatcher): a new encoding at distance exactly the
\* tolerance from a known encoding is matched to that encoding; one farther
\* than the tolerance from every known encoding becomes a new identity.
C6_MatchedToTheBoundaryOne ==
    [][pc = "for_face"
       => LET e == CurrentFace.encoding
          IN /\ \A k \in EncodingIndices :
                  face_distance(known_face_encodings[k], e) = FACE_COMPARISON_TOLERANCE
                  => match_index' = k - 1
             /\ WithinTolerance(e) = {} => match_index' = -1]_vars

\* C6 as amended (SpecMatcher): a new encoding at distance exactly the
\* tolerance from a known encoding is treated as a match (inclusive <=): it
\* is matched to that encoding or to an earlier one that is also within
\* tolerance, to that encoding itself when no earlier one is, and the known
\* encodings stay as they are.  One farther than the tolerance from every
\* known encoding is treated as new: no index is returned, it is appended to
\* the known encodings, and it becomes an identity of count 1 when its
\* thumbnail is created.
C6_ThresholdBoundary ==
    [][pc = "for_face"
       => LET e == CurrentFace.encoding
              thumbnail == create_thumbnail(CurrentFace.face_image,
                                            CurrentFace.is_success)
          IN /\ \A k \in EncodingIndices :
                  face_distance(known_face_encodings[k], e) = FACE_COMPARISON_TOLERANCE
                  => /\ match_index' # -1
                     /\ match_index' <= k - 1
                     /\ (\A j \in WithinTolerance(e) : j >= k - 1)
                          => match_index' = k - 1
                     /\ known_face_encodings' = known_face_encodings
             /\ WithinTolerance(e) = {}
                  => /\ match_index' = -1
                     /\ known_face_encodings' = Append(known_face_encodings, e)
                     /\ thumbnail # None
                          => known_face_metadata' =
                               Append(known_face_metadata,
                                      [count |-> 1, thumbnail |-> thumbnail])]_vars

\* The new encoding is exactly the tolerance away from the only known one and
\* was matched to it.
C6_Witness ==
    /\ ProbeProcessed
    /\ Len(known_face_encodings) = 1
    /\ face_distance(known_face_encodings[1], ProbeEncoding) = FACE_COMPARISON_TOLERANCE
    /\ match_index = 0
    /\ known_face_metadata[1].count = 2

\* C7 (Spec): the gallery is append-only.  No step shortens the known
\* encodings or the identity records, no step changes an existing reference
\* encoding or thumbnail, and no step lowers a count.
C7_AppendOnly ==
    [][/\ Len(known_face_encodings') >= Len(known_face_encodings)
       /\ Len(known_face_metadata') >= Len(known_face_metadata)
       /\ \A k \in EncodingIndices :
            known_face_encodings'[k] = known_face_encodings[k]
       /\ \A k \in MetadataIndices :
            /\ known_face_metadata'[k].thumbnail = known_face_metadata[k].thumbnail
            /\ known_face_metadata'[k].count >= known_face_metadata[k].count]_vars

\* Two identities, the first of them counted in a second video.
C7_Witness ==
    /\ Len(known_face_metadata) = 2
    /\ Len(known_face_encodings) = 2
    /\ known_face_metadata[1].count = 2
    /\ known_face_metadata[1].thumbnail # None

\* C9 (Spec): a run over a valid directory that ends with no identity record
\* writes no report and ends with exit status 0, and a report is written only
\* of a non-empty gallery.
C9_NoIdentityNoReport ==
    /\ (pc = "exit" /\ outcome # "not_a_directory" /\ known_face_metadata = <<>>)
         => (~report.written /\ exit_code = 0)
    /\ report.written => known_face_metadata # <<>>

\* the gallery of the second run is the gallery of the first
SameGallery ==
    /\ known_face_encodings = first_run.encodings
    /\ known_face_metadata = first_run.metadata

\* C8 (SpecRuns): a video that fails to open is skipped.  The step that fails
\* to open it leaves the gallery unchanged and goes on to the next video of
\* the list, and a run over the list without the videos that cannot be opened
\* ends with the same gallery.
C8_UnopenableSkipped ==
    /\ []((run = 2 /\ pc = "exit" /\ Range(video_files) = Openable) => SameGallery)
    /\ [][(/\ pc = "for_video"
           /\ video_idx < Len(video_files)
           /\ ~videos[video_files[video_idx + 1]].opens)
          => /\ UNCHANGED <<known_face_encodings, known_face_metadata>>
             /\ pc' = "for_video"
             /\ video_idx' = video_idx + 1]_vars

\* The first video could not be opened, the second one gave an identity, and
\* the run over the second video alone has ended.
C8_Witness ==
    /\ run = 2
    /\ pc = "exit"
    /\ ~videos[1].opens
    /\ video_files = <<2>>
    /\ Len(first_run.metadata) = 1
    /\ Len(known_face_metadata) = 1

\* C10 (SpecRuns): determinism.  A second run over the same set of videos,
\* which the directory may list in another order, ends with the gallery of
\* the first run: the same encodings, counts and thumbnails at the same indices.
C10_Determinism ==
    (run = 2 /\ pc = "exit" /\ Range(video_files) = DOMAIN videos) => SameGallery

\* Both runs over two videos that show the same person with different
\* encodings have ended, with one identity counted twice.
C10_Witness ==
    /\ run = 2
    /\ pc = "exit"
    /\ Len(video_files) = 2
    /\ videos[1].frames # videos[2].frames
    /\ Len(known_face_metadata) = 1
    /\ known_face_metadata[1].count = 2

\* C11 (Spec): identity indices follow the order of first appearance, and the
\* Dedup Tracker and the Matcher agree on them.  A step that creates an
\* identity appends its record after the existing ones, which keep their
\* indices; the index recorded in persons_found_in_this_file is the number of
\* records before the step; and it is the index of the identity's encoding in
\* known_face_encodings, the index the Matcher returns for a later match.
C11_IndexOfFirstAppearance ==
    [][Len(known_face_metadata') > Len(known_face_metadata)
       => LET new_person_index == Len(known_face_metadata)
          IN /\ Len(known_face_metadata') = new_person_index + 1
             /\ SubSeq(known_face_metadata', 1, new_person_index)
                  = known_face_metadata
             /\ known_face_metadata'[new_person_index + 1].count = 1
             /\ persons_found_in_this_file'
                  = persons_found_in_this_file \cup {new_person_index}
             /\ Len(known_face_encodings') = Len(known_face_encodings) + 1
             /\ Len(known_face_encodings') - 1 = new_person_index]_vars

\* the record a card shows
CardRecord(card) == [count |-> card.count, thumbnail |-> card.thumbnail]

\* C12 (Spec): the report that was written lists every identity record of the
\* final gallery exactly once (each record value is on as many cards as there
\* are records of that value), the counts of the cards do not increase from
\* one card to the next, the k-th card bears rank k, and the total the report
\* states is the number of identity records.
C12_ReportOfTheGallery ==
    report.written
    => /\ Len(report.cards) = Len(known_face_metadata)
       /\ \A r \in Range(known_face_metadata) :
            Cardinality({k \in DOMAIN report.cards : CardRecord(report.cards[k]) = r})
              = Cardinality({k \in MetadataIndices : known_face_metadata[k] = r})
       /\ \A k \in DOMAIN report.cards :
            /\ report.cards[k].person_id = k
            /\ k > 1 => report.cards[k - 1].count >= report.cards[k].count
       /\ report.total_count = Len(known_face_metadata)

\* A report of two identities; the one created second has the greater count
\* and is on the first card.
C12_Witness ==
    /\ report.written
    /\ Len(known_face_metadata) = 2
    /\ known_face_metadata[1].count = 1
    /\ known_face_metadata[2].count = 2
    /\ report.cards[1] = [person_id |-> 1, count |-> 2,
                          thumbnail |-> known_face_metadata[2].thumbnail]
    /\ report.cards[2].count = 1

\* the previous detection of the sampled frame created an identity: it was
\* unmatched, and the encoding it appended has a record
JustCreated ==
    /\ pc = "for_face"
    /\ i >= 1
    /\ match_index = -1
    /\ ref_of # <<>>
    /\ ref_of[Len(ref_of)] = Len(known_face_encodings) - 1

\* the identity JustCreated is about: index of its encoding, of its record
NewEncodingIndex == Len(known_face_encodings) - 1
NewRecord == Len(known_face_metadata)

\* the step is an iteration of the face loop on a face of encoding e
ProcessedAs(e) ==
    \/ KnownFace(e)
    \/ \E face_image \in Images, is_success \in BOOLEAN :
          NewFace(e, face_image, is_success)

\* C13 as stated (Spec): when a detection created an identity and the next
\* detection of the frame is within tolerance of it, the next detection is
\* matched to that identity, no identity is created and the count of the new
\* identity stays 1.
C13_MatchedToTheNewIdentity ==
    [][JustCreated
       => \A e \in Encodings :
          (/\ NewEncodingIndex \in WithinTolerance(e)
           /\ ProcessedAs(e))
          => /\ match_index' = NewEncodingIndex
             /\ known_face_encodings' = known_face_encodings
             /\ Len(known_face_metadata') = Len(known_face_metadata)
             /\ known_face_metadata'[NewRecord].count = 1]_vars

\* C13 as amended (Spec): every detection is matched against the encodings
\* known at that moment, the one appended by the previous detection of the
\* frame included.  When a detection created an identity and the next
\* detection of the frame is within tolerance of it, the next detection is
\* matched to that identity or to an earlier encoding that is also within
\* tolerance (to that identity when there is no such earlier one), no encoding
\* and no identity is appended, and the count of the new identity stays 1.
C13_MatchedAgainstCurrentGallery ==
    [][JustCreated
       => \A e \in Encodings :
          (/\ NewEncodingIndex \in WithinTolerance(e)
           /\ ProcessedAs(e))
          => /\ match_index' \in WithinTolerance(e)
             /\ \A k \in WithinTolerance(e) : match_index' <= k
             /\ WithinTolerance(e) = {NewEncodingIndex}
                  => match_index' = NewEncodingIndex
             /\ known_face_encodings' = known_face_encodings
             /\ Len(known_face_metadata') = Len(known_face_metadata)
             /\ known_face_metadata'[NewRecord].count = 1]_vars

\* The first sampled frame of a video had two detections: the first created
\* an identity, the second was matched to it, and its count is 1.
C13_Witness ==
    /\ pc = "while_frame"
    /\ skip_frames = 1
    /\ frame_count = 1
    /\ Len(known_face_encodings) = Len(known_face_metadata)
    /\ Len(known_face_metadata) = Len(count_at_open) + 1
    /\ match_index = Len(known_face_encodings) - 1
    /\ ref_of[Len(ref_of)] = match_index
    /\ known_face_metadata[match_index + 1].count = 1

\* C14 (Spec): the known encodings and the identity records are aligned.  In
\* every state the two lists have the same length and record k was created by
\* the detection that appended encoding k, so that an index into
\* known_face_encodings denotes the same identity in known_face_metadata.
C14_ListsAligned ==
    /\ Len(known_face_encodings) = Len(known_face_metadata)
    /\ \A k \in MetadataIndices : ref_of[k] = k - 1

\* C15 (Spec): in every state the count of every identity is at least 1 and at
\* most the number of videos opened so far, and so is every count the report
\* states.
C15_CountWithinOpenedVideos ==
    /\ \A k \in MetadataIndices :
         /\ known_face_metadata[k].count >= 1
         /\ known_face_metadata[k].count <= opened_videos
    /\ \A k \in DOMAIN report.cards :
         /\ report.cards[k].count >= 1
         /\ report.cards[k].count <= opened_videos

\* Two videos were opened, and the report states of one identity that it was
\* detected in both of them and of another that it was detected in one.
C15_Witness ==
    /\ pc = "exit"
    /\ report.written
    /\ opened_videos = 2
    /\ \E k \in DOMAIN report.cards : report.cards[k].count = opened_videos
    /\ \E k \in DOMAIN report.cards : report.cards[k].count = 1

====
